---- MODULE Spec2Model ----
(***************************************************************************)
(* State-machine model of main.py: the FastAPI gateway with the document   *)
(* upload route and the four LLM routes.                                   *)
(*                                                                         *)
(* A Python str is a sequence of pieces.  A piece is the one-character     *)
(* string " " or "\n", or a run of characters that holds no line break and *)
(* does not begin with white space (a letter, a word, a template literal). *)
(* Texts that are stripped or measured are built of one-character pieces.  *)
(***************************************************************************)
EXTENDS Integers, Sequences, FiniteSets, TLC

VARIABLES
    credentials,  \* the GEMINI_API_KEY configuration of the process
    req,          \* req[r]: route and input of request r
    pc,           \* pc[r]: position of request r's handler
    client,       \* client[r]: outcome of genai.Client() in r's handler
    ext,          \* ext[r]: extractor invoked for r and the pages it read
    calls,        \* calls[r]: prompts r's handler sent to generate_content
    reply,        \* reply[r]: what generate_content gave r's handler
    resp          \* resp[r]: the HTTP response of request r

vars == <<credentials, req, pc, client, ext, calls, reply, resp>>

\* ------------------------------------------------------------- bounds
NumRequests == 2
MaxPages == 11
MaxParagraphs == 2

Requests == 1..NumRequests

\* ------------------------------------------------------------ strings
Min(a, b) == IF a <= b THEN a ELSE b

IsSpace(c) == c \in {" ", "\n"}

RECURSIVE lstrip(_)
lstrip(s) ==
    IF s = <<>> THEN <<>>
    ELSE IF IsSpace(Head(s)) THEN lstrip(Tail(s)) ELSE s

RECURSIVE rstrip(_)
rstrip(s) ==
    IF s = <<>> THEN <<>>
    ELSE IF IsSpace(s[Len(s)]) THEN rstrip(SubSeq(s, 1, Len(s) - 1)) ELSE s

\* a mutant of strip: the text is returned as extracted
strip_skipped(s) == s

\* str.strip()
strip(s) == rstrip(lstrip(s))

\* "sep".join(parts)
RECURSIVE join(_, _)
join(sep, parts) ==
    IF parts = <<>> THEN <<>>
    ELSE IF Len(parts) = 1 THEN parts[1]
    ELSE parts[1] \o sep \o join(sep, Tail(parts))

\* text.split("\n")
RECURSIVE SplitFrom(_, _, _)
SplitFrom(s, k, line) ==
    IF k > Len(s) THEN <<line>>
    ELSE IF s[k] = "\n" THEN <<line>> \o SplitFrom(s, k + 1, <<>>)
    ELSE SplitFrom(s, k + 1, Append(line, s[k]))

SplitLines(s) == SplitFrom(s, 1, <<>>)

\* ---------------------------------------------------- uploaded files
PDF_MIME == "application/pdf"
DOCX_MIME == "application/vnd.openxmlformats-officedocument.wordprocessingml.document"

\* page.extract_text() of one page: a str, None, or an exception
NonePage == [kind |-> "none", text |-> <<>>]
BadPage == [kind |-> "throws", text |-> <<>>]
TextPage(t) == [kind |-> "text", text |-> t]

\* the uploaded bytes, by what the parsers make of them
Garbage == [fmt |-> "garbage", pages |-> <<>>, paragraphs |-> <<>>]
PdfBytes(pages) == [fmt |-> "pdf", pages |-> pages, paragraphs |-> <<>>]
DocxBytes(paragraphs) == [fmt |-> "docx", pages |-> <<>>, paragraphs |-> paragraphs]

\* ---------------------------------------------------------- responses
NoFields == [x \in {} |-> <<>>]
HTTPException(status_code, detail) ==
    [status |-> status_code, detail |-> detail, fields |-> NoFields]
Ok200(fields) == [status |-> 200, detail |-> <<>>, fields |-> fields]
NoResp == [status |-> 0, detail |-> <<>>, fields |-> NoFields]

\* what an extractor hands back: the text, or the HTTPException it raised
Returned(text, read) == [raised |-> FALSE, text |-> text, read |-> read, exc |-> NoResp]
Raised(exc, read) == [raised |-> TRUE, text |-> <<>>, read |-> read, exc |-> exc]

\* ----------------------------------------------------- text extractor
\* a mutant of FirstPages: every page is read
FirstPagesUncapped(pages) == pages

\* reader.pages[:10]
FirstPages(pages) == SubSeq(pages, 1, Min(Len(pages), 10))

\* the loop of extract_text_from_pdf over the pages it was given, from page k
RECURSIVE PdfLoop(_, _, _, _)
PdfLoop(pages, k, text, read) ==
    IF k > Len(pages) THEN Returned(strip(text), read)
    ELSE IF pages[k].kind = "throws"
         THEN Raised(HTTPException(500, <<"PDF extraction error: ", "page cannot be decoded">>),
                     Append(read, k))
    ELSE PdfLoop(pages, k + 1,
                 text \o (IF pages[k].kind = "text" THEN pages[k].text ELSE <<>>),
                 Append(read, k))

extract_text_from_pdf(file_content) ==
    IF file_content.fmt # "pdf"
    THEN Raised(HTTPException(500, <<"PDF extraction error: ", "not a PDF file">>), <<>>)
    ELSE PdfLoop(FirstPages(file_content.pages), 1, <<>>, <<>>)

\* [paragraph.text for paragraph in document.paragraphs if paragraph.text.strip()]
RECURSIVE NonBlank(_)
NonBlank(paragraphs) ==
    IF paragraphs = <<>> THEN <<>>
    ELSE IF strip(Head(paragraphs)) # <<>>
         THEN <<Head(paragraphs)>> \o NonBlank(Tail(paragraphs))
    ELSE NonBlank(Tail(paragraphs))

\* a mutant of extract_text_from_docx: a parse failure is swallowed
extract_text_from_docx_swallowing(file_content) ==
    IF file_content.fmt # "docx"
    THEN Returned(<<>>, <<>>)
    ELSE Returned(strip(join(<<"\n">>, NonBlank(file_content.paragraphs))), <<>>)

extract_text_from_docx(file_content) ==
    IF file_content.fmt # "docx"
    THEN Raised(HTTPException(500, <<"DOCX extraction error: ", "not a DOCX file">>), <<>>)
    ELSE Returned(strip(join(<<"\n">>, NonBlank(file_content.paragraphs))), <<>>)

\* ------------------------------------------------------ upload route
\* a mutant of Dispatch: any MIME type that is not DOCX is parsed as PDF
DispatchPdfByDefault(mime_type) ==
    IF mime_type = DOCX_MIME THEN "docx" ELSE "pdf"

\* the if / elif / else on mime_type
Dispatch(mime_type) ==
    IF mime_type = PDF_MIME THEN "pdf"
    ELSE IF mime_type = DOCX_MIME THEN "docx"
    ELSE "none"

\* a mutant of UploadResponse: the length is taken before the text is set
UploadResponseStaleLength(filename, extracted_text) ==
    [filename |-> filename, extracted_text |-> extracted_text, text_length |-> 0]

\* the returned dict of upload_document
UploadResponse(filename, extracted_text) ==
    [filename |-> filename,
     extracted_text |-> extracted_text,
     text_length |-> Len(extracted_text)]

NoExt == [invoked |-> "none", read |-> <<>>, text |-> <<>>]

\* what the extractor called for a request did: which one, the pages it read,
\* the text it returned
Extraction(which, x) == [invoked |-> which, read |-> x.read, text |-> x.text]

\* upload_document after file.read(): the response and the extractor used
upload_document(file) ==
    LET which == Dispatch(file.mime)
        x == IF which = "pdf" THEN extract_text_from_pdf(file.content)
             ELSE extract_text_from_docx(file.content)
    IN  IF which = "none"
        THEN [resp |-> HTTPException(400,
                  <<"Invalid file type. Only PDF and DOCX are supported for this MVP.">>),
              ext |-> NoExt]
        ELSE IF x.raised
        THEN [resp |-> x.exc, ext |-> Extraction(which, x)]
        ELSE IF x.text = <<>>
        THEN [resp |-> HTTPException(400, <<"Could not extract text from the document.">>),
              ext |-> Extraction(which, x)]
        ELSE [resp |-> Ok200(UploadResponse(file.filename, x.text)),
              ext |-> Extraction(which, x)]

\* ------------------------------------------------------ prompt builder
Indent4 == <<" ", " ", " ", " ">>

\* one line of a template: four spaces, the literal pieces, a line break
L(pieces) == Indent4 \o pieces \o <<"\n">>

\* textwrap.dedent ------------------------------------------------------
\* a line of only spaces (at least one): the regex ^[ \t]+$
IsBlankLine(line) == line # <<>> /\ \A i \in 1..Len(line) : line[i] = " "

RECURSIVE LeadingSpaces(_)
LeadingSpaces(line) ==
    IF line = <<>> \/ Head(line) # " " THEN 0
    ELSE 1 + LeadingSpaces(Tail(line))

\* the margin: the common leading white space of the lines that hold text
RECURSIVE Margin(_, _, _)
Margin(lines, k, margin) ==
    IF k > Len(lines) THEN margin
    ELSE IF lines[k] = <<>> THEN Margin(lines, k + 1, margin)
    ELSE IF margin = -1 THEN Margin(lines, k + 1, LeadingSpaces(lines[k]))
    ELSE Margin(lines, k + 1, Min(margin, LeadingSpaces(lines[k])))

dedent(text) ==
    LET raw == SplitLines(text)
        lines == [k \in 1..Len(raw) |-> IF IsBlankLine(raw[k]) THEN <<>> ELSE raw[k]]
        margin == Margin(lines, 1, -1)
        cut == [k \in 1..Len(lines) |->
                   IF margin > 0 /\ lines[k] # <<>>
                   THEN SubSeq(lines[k], margin + 1, Len(lines[k]))
                   ELSE lines[k]]
    IN  join(<<"\n">>, cut)

\* the f-string of chat_with_document, before textwrap.dedent
ChatTemplate(document_text, question) ==
    <<"\n">>
    \o L(<<"You are a professional Legal Assistant, named the 'Conversational Legal Twin'. ">>)
    \o L(<<"Your primary function is to simplify complex legal information and answer the user's question ">>)
    \o L(<<"based **STRICTLY AND ONLY** on the legal document provided below.">>)
    \o L(<<>>)
    \o L(<<"If you cannot find a direct answer or relevant clause in the document, state clearly: ">>)
    \o L(<<"\"The answer to that question could not be found in the provided document.\"">>)
    \o <<"\n">>
    \o L(<<"--- LEGAL DOCUMENT TEXT ---">>)
    \o L(document_text)
    \o L(<<"--- END OF DOCUMENT ---">>)
    \o <<"\n">>
    \o L(<<"USER QUESTION: ">> \o question)
    \o Indent4

prompt(document_text, question) == dedent(ChatTemplate(document_text, question))

rewrite_prompt(clause_text) ==
    <<"\n">>
    \o L(<<"You are an expert Plain Language Translator. Your task is to rewrite the">>)
    \o L(<<"following legal clause into simple, easy-to-understand English.">>)
    \o L(<<"The rewritten text must preserve the full original legal meaning and risk, but use">>)
    \o L(<<"no legal jargon.">>)
    \o <<"\n">>
    \o L(<<"--- ORIGINAL CLAUSE ---">>)
    \o L(clause_text)
    \o Indent4

summary_prompt(document_text, user_role) ==
    <<"\n">>
    \o L(<<"You are a Legal Risk Analyst. Summarize the key rights, obligations, and potential">>)
    \o L(<<"risks in the legal document below, focusing **only** on the perspective of the **">>
         \o user_role \o <<"**.">>)
    \o L(<<"Use clear bullet points and cite the section number for each item.">>)
    \o <<"\n">>
    \o L(<<"--- LEGAL DOCUMENT TEXT ---">>)
    \o L(document_text)
    \o Indent4

risk_prompt(document_text, user_role) ==
    <<"\n">>
    \o L(<<"You are a high-level Contract Risk Analyst. Your task is to generate a comprehensive, ">>)
    \o L(<<"structured risk report for the **">> \o user_role \o <<"** based on the document below. ">>)
    \o L(<<"The output must be formatted with the main title and section headings in markdown.">>)
    \o <<"\n">>
    \o L(<<"1. **Identify the Top 3 Financial Risks** to the ">> \o user_role \o <<".">>)
    \o L(<<"2. **Identify the Top 3 Legal/Compliance Risks** (e.g., breach of contract, loss of rights).">>)
    \o L(<<"3. For each risk, cite the **relevant Section number** and provide a brief **mitigation suggestion** (e.g., \"Always pay by the 1st\").">>)
    \o <<"\n">>
    \o L(<<"--- LEGAL DOCUMENT TEXT ---">>)
    \o L(document_text)
    \o Indent4

\* --------------------------------------------------------- LLM routes
LlmRoutes == {"chat", "rewrite", "risk", "personalized"}

\* a mutant of BuildPrompt: the prompt carries a running number of the calls made
BuildPromptNumbered(route, body) ==
    (CASE route = "chat" -> prompt(body.document_text, body.question)
       [] route = "rewrite" -> rewrite_prompt(body.clause_text)
       [] route = "personalized" -> summary_prompt(body.document_text, body.user_role)
       [] route = "risk" -> risk_prompt(body.document_text, body.user_role))
    \o <<ToString(Cardinality({k \in Requests : calls[k] # <<>>}))>>

\* the prompt each handler builds from its request body
BuildPrompt(route, body) ==
    CASE route = "chat" -> prompt(body.document_text, body.question)
      [] route = "rewrite" -> rewrite_prompt(body.clause_text)
      [] route = "personalized" -> summary_prompt(body.document_text, body.user_role)
      [] route = "risk" -> risk_prompt(body.document_text, body.user_role)

\* genai.Client(): the exception it raises, "" when it gives a handle
ClientError(cred) ==
    CASE cred = "valid" -> ""
      [] cred = "absent" -> "Missing key inputs argument"
      [] cred = "invalid" -> "API key not valid"

\* a mutant of ConfigErrorDetail: the message quotes the exception
ConfigErrorDetailWithCause(route, e) ==
    <<"Gemini API Key is missing or invalid.", " ", e>>

\* the detail of the HTTPException raised when genai.Client() throws
ConfigErrorDetail(route, e) ==
    IF route = "chat"
    THEN <<"Gemini API Key is missing or invalid. Check environment variables.">>
    ELSE <<"Gemini API Key is missing or invalid.">>

\* the detail of the HTTPException raised when generate_content throws e
UpstreamErrorDetail(route, e) ==
    CASE route = "chat" ->
           <<"AI processing failed: A communication error occurred with the Gemini API. Error details: ">> \o e
      [] route = "rewrite" -> <<"AI rewriting failed: ">> \o e
      [] route = "personalized" -> <<"AI summarization failed: ">> \o e
      [] route = "risk" -> <<"AI risk report generation failed: ">> \o e

\* a mutant of SuccessFields: the response text is trimmed
SuccessFieldsTrimmed(route, text) ==
    CASE route = "chat" -> [answer |-> strip(text)]
      [] route = "rewrite" -> [simplified_text |-> strip(text)]
      [] route = "personalized" -> [summary |-> strip(text)]
      [] route = "risk" -> [risk_report |-> strip(text)]

\* the dict each handler returns with response.text
SuccessFields(route, text) ==
    CASE route = "chat" -> [answer |-> text]
      [] route = "rewrite" -> [simplified_text |-> text]
      [] route = "personalized" -> [summary |-> text]
      [] route = "risk" -> [risk_report |-> text]

\* ------------------------------------------------------------- inputs
DocA == <<"a">>
DocB == <<" ", "b", "\n", " ", "\n", " ", " ", "c">>
Question1 == <<"q", "?">>
Question2 == <<"w">>
Tenant == <<"Tenant">>
Landlord == <<"Landlord">>
Clauses == { <<"c">>, <<" ", "d", "\n">> }
ReplyTexts == { <<"o", "k">>, <<" ", "y", "\n">> }
UpstreamErrors == { <<"quota exceeded">>, <<"timed out">> }

\* the request bodies of the four LLM routes
LlmInputs ==
    { [route |-> "chat", body |-> [document_text |-> x[1], question |-> x[2]]] :
          x \in { <<DocA, Question1>>, <<DocB, Question2>>, <<DocA, Question2>> } }
    \cup { [route |-> "rewrite", body |-> [clause_text |-> c]] : c \in Clauses }
    \cup { [route |-> rt, body |-> [document_text |-> x[1], user_role |-> x[2]]] :
          rt \in {"risk", "personalized"},
          x \in { <<DocA, Tenant>>, <<DocB, Landlord>> } }

Mimes == {PDF_MIME, DOCX_MIME, "text/plain", "application/msword"}
Filenames == {"lease.pdf", "notes.bin"}

\* the files of the concurrent specification
UploadFixtures ==
    { [filename |-> "lease.pdf", mime |-> PDF_MIME,
       content |-> PdfBytes(<<TextPage(<<"a", " ">>), NonePage, TextPage(<<"b">>)>>)],
      [filename |-> "lease.pdf", mime |-> PDF_MIME, content |-> Garbage],
      [filename |-> "notes.bin", mime |-> "text/plain", content |-> Garbage],
      [filename |-> "lease.docx", mime |-> DOCX_MIME,
       content |-> DocxBytes(<<<<" ">>, <<"c">>>>)] }

\* the pages and paragraphs of the upload specification
PageValues ==
    { NonePage, BadPage, TextPage(<<>>), TextPage(<<" ">>), TextPage(<<"a">>),
      TextPage(<<"\n", "b", " ">>), TextPage(<<"z">>) }
ParagraphValues == { <<>>, <<" ">>, <<"a">>, <<" ", "b", "\n">> }

\* a document of n pages, all d but page i, which is t
PdfDocs ==
    { PdfBytes(<<>>) }
    \cup { PdfBytes([k \in 1..n |-> IF k = i THEN t ELSE d]) :
             n \in 1..MaxPages, i \in 1..MaxPages, t \in PageValues, d \in PageValues }

RECURSIVE SeqsUpTo(_, _)
SeqsUpTo(S, n) ==
    IF n = 0 THEN { <<>> }
    ELSE SeqsUpTo(S, n - 1)
         \cup { Append(s, x) : s \in { q \in SeqsUpTo(S, n - 1) : Len(q) = n - 1 }, x \in S }

DocxDocs == { DocxBytes(ps) : ps \in SeqsUpTo(ParagraphValues, MaxParagraphs) }

UploadFiles ==
    { [filename |-> f, mime |-> m, content |-> c] :
          f \in Filenames, m \in Mimes, c \in {Garbage} \cup PdfDocs \cup DocxDocs }

\* ------------------------------------------------------ state machine
NoReq == [route |-> "none", body |-> NoFields]
NoReply == [kind |-> "none", text |-> <<>>]

Init ==
    /\ credentials \in {"valid", "absent", "invalid"}
    /\ req = [r \in Requests |-> NoReq]
    /\ pc = [r \in Requests |-> "idle"]
    /\ client = [r \in Requests |-> "none"]
    /\ ext = [r \in Requests |-> NoExt]
    /\ calls = [r \in Requests |-> <<>>]
    /\ reply = [r \in Requests |-> NoReply]
    /\ resp = [r \in Requests |-> NoResp]

\* a mutant of request: the handlers read a module-level "current request"
request_shared(r) ==
    req[CHOOSE k \in Requests :
            /\ pc[k] # "idle"
            /\ req[k].route = req[r].route
            /\ \A j \in Requests :
                   (pc[j] # "idle" /\ req[j].route = req[r].route) => j <= k]

\* the handler's own parameter
request(r) == req[r]

\* the framework hands request r, parsed, to its handler
Receive(r, input) ==
    /\ req' = [req EXCEPT ![r] = input]
    /\ pc' = [pc EXCEPT ![r] = "received"]
    /\ UNCHANGED <<credentials, client, ext, calls, reply, resp>>

ArriveLlm(r) ==
    /\ pc[r] = "idle"
    /\ \E input \in LlmInputs : Receive(r, input)

ArriveUpload(r) ==
    /\ pc[r] = "idle"
    /\ \E f \in UploadFixtures : Receive(r, [route |-> "upload", body |-> f])

ArriveUploadAny(r) ==
    /\ pc[r] = "idle"
    /\ \E f \in UploadFiles : Receive(r, [route |-> "upload", body |-> f])

HandleUpload(r) ==
    /\ pc[r] = "received"
    /\ req[r].route = "upload"
    /\ LET out == upload_document(request(r).body)
       IN  /\ resp' = [resp EXCEPT ![r] = out.resp]
           /\ ext' = [ext EXCEPT ![r] = out.ext]
    /\ pc' = [pc EXCEPT ![r] = "done"]
    /\ UNCHANGED <<credentials, req, client, calls, reply>>

\* try: client = genai.Client()  except Exception: raise HTTPException(500, ...)
GetClient(r) ==
    /\ pc[r] = "received"
    /\ req[r].route \in LlmRoutes
    /\ LET e == ClientError(credentials)
       IN  IF e = ""
           THEN /\ client' = [client EXCEPT ![r] = "handle"]
                /\ pc' = [pc EXCEPT ![r] = "client"]
                /\ UNCHANGED resp
           ELSE /\ client' = [client EXCEPT ![r] = "failed"]
                /\ pc' = [pc EXCEPT ![r] = "done"]
                /\ resp' = [resp EXCEPT ![r] =
                               HTTPException(500, ConfigErrorDetail(req[r].route, e))]
    /\ UNCHANGED <<credentials, req, ext, calls, reply>>

\* the prompt is built and client.models.generate_content is called
Generate(r) ==
    /\ pc[r] = "client"
    /\ calls' = [calls EXCEPT ![r] =
                    Append(@, BuildPrompt(req[r].route, request(r).body))]
    /\ pc' = [pc EXCEPT ![r] = "called"]
    /\ UNCHANGED <<credentials, req, client, ext, reply, resp>>

\* generate_content returns: return {<field>: response.text}
UpstreamReturns(r) ==
    /\ pc[r] = "called"
    /\ \E t \in ReplyTexts :
          /\ reply' = [reply EXCEPT ![r] = [kind |-> "text", text |-> t]]
          /\ resp' = [resp EXCEPT ![r] = Ok200(SuccessFields(req[r].route, t))]
    /\ pc' = [pc EXCEPT ![r] = "done"]
    /\ UNCHANGED <<credentials, req, client, ext, calls>>

\* a mutant of UpstreamFails: the call is issued once more after a failure
UpstreamFailsRetry(r) ==
    /\ pc[r] = "called"
    /\ \E e \in UpstreamErrors :
          /\ reply' = [reply EXCEPT ![r] = [kind |-> "error", text |-> e]]
          /\ IF Len(calls[r]) < 2
             THEN /\ pc' = [pc EXCEPT ![r] = "client"]
                  /\ UNCHANGED resp
             ELSE /\ pc' = [pc EXCEPT ![r] = "done"]
                  /\ resp' = [resp EXCEPT ![r] =
                                 HTTPException(500, UpstreamErrorDetail(req[r].route, e))]
    /\ UNCHANGED <<credentials, req, client, ext, calls>>

\* generate_content throws e: except Exception as e: raise HTTPException(500, ...)
UpstreamFails(r) ==
    /\ pc[r] = "called"
    /\ \E e \in UpstreamErrors :
          /\ reply' = [reply EXCEPT ![r] = [kind |-> "error", text |-> e]]
          /\ resp' = [resp EXCEPT ![r] =
                         HTTPException(500, UpstreamErrorDetail(req[r].route, e))]
    /\ pc' = [pc EXCEPT ![r] = "done"]
    /\ UNCHANGED <<credentials, req, client, ext, calls>>

Next ==
    \E r \in Requests :
        \/ ArriveLlm(r)
        \/ ArriveUpload(r)
        \/ HandleUpload(r)
        \/ GetClient(r)
        \/ Generate(r)
        \/ UpstreamReturns(r)
        \/ UpstreamFails(r)

\* concurrent requests to all routes
Spec == Init /\ [][Next]_vars

\* one upload at a time, over every file of UploadFiles
NextUpload == ArriveUploadAny(1) \/ HandleUpload(1)

\* the upload route reads no credentials: one configuration is enough here
InitUpload == Init /\ credentials = "valid"

SpecUpload == InitUpload /\ [][NextUpload]_vars

\* ============================================================ claims
Done(r) == pc[r] = "done"
Uploaded(r) == Done(r) /\ req[r].route = "upload"
File(r) == req[r].body

AllSpace(s) == \A i \in 1..Len(s) : IsSpace(s[i])

\* the texts of pages 1..n, one after the other
RECURSIVE PagesText(_, _)
PagesText(pages, n) ==
    IF n = 0 THEN <<>>
    ELSE PagesText(pages, n - 1) \o (IF pages[n].kind = "text" THEN pages[n].text ELSE <<>>)

\* t is raw without its leading and trailing white space
IsTrimOf(t, raw) ==
    \E i \in 1..(Len(raw) + 1) : \E j \in 0..Len(raw) :
        /\ t = SubSeq(raw, i, j)
        /\ \A k \in 1..(i - 1) : IsSpace(raw[k])
        /\ \A k \in (j + 1)..Len(raw) : IsSpace(raw[k])
        /\ t # <<>> => ~IsSpace(t[1]) /\ ~IsSpace(t[Len(t)])

\* the pages a PDF extraction looks at
Scanned(file) == Min(Len(file.content.pages), 10)

\* the declared type is PDF and the parser reads the bytes without throwing
PdfParses(file) ==
    /\ file.mime = PDF_MIME
    /\ file.content.fmt = "pdf"
    /\ \A k \in 1..Scanned(file) : file.content.pages[k].kind # "throws"

DocxParses(file) == file.mime = DOCX_MIME /\ file.content.fmt = "docx"

\* C1: an upload whose declared MIME type is neither PDF nor DOCX is answered
\* with HTTP 400, whatever its bytes, and no extractor is invoked.
C1_UnsupportedTypeRejected ==
    \A r \in Requests :
        (Uploaded(r) /\ File(r).mime \notin {PDF_MIME, DOCX_MIME})
            => (resp[r].status = 400 /\ ext[r].invoked = "none" /\ ext[r].read = <<>>)

C1_Witness ==
    \E r \in Requests :
        /\ Uploaded(r)
        /\ File(r).mime = "text/plain"
        /\ File(r).content.fmt = "pdf"
        /\ \E k \in 1..Len(File(r).content.pages) : File(r).content.pages[k] = TextPage(<<"a">>)
        /\ resp[r].status = 400

\* C2: a PDF or DOCX upload that parses without throwing but whose text is empty
\* or only white space is answered with HTTP 400, never with a 200.
C2_EmptyTextRejected ==
    \A r \in Requests :
        /\ (Uploaded(r) /\ PdfParses(File(r))
              /\ AllSpace(PagesText(File(r).content.pages, Scanned(File(r)))))
             => (resp[r].status = 400 /\ resp[r].fields = NoFields)
        /\ (Uploaded(r) /\ DocxParses(File(r))
              /\ \A k \in 1..Len(File(r).content.paragraphs) :
                     AllSpace(File(r).content.paragraphs[k]))
             => (resp[r].status = 400 /\ resp[r].fields = NoFields)

C2_Witness ==
    \E r \in Requests :
        /\ Uploaded(r)
        /\ PdfParses(File(r))
        /\ Len(File(r).content.pages) >= 2
        /\ PagesText(File(r).content.pages, Scanned(File(r))) # <<>>
        /\ AllSpace(PagesText(File(r).content.pages, Scanned(File(r))))
        /\ resp[r].status = 400

\* the parser of the declared type throws on the file
ParserThrows(file) ==
    \/ file.mime = PDF_MIME /\ ~PdfParses(file)
    \/ file.mime = DOCX_MIME /\ ~DocxParses(file)

\* C3 (as claimed): an unsupported type, a parser that throws and an empty
\* extraction result each yield HTTP 400.
C3_AllFailuresAre400 ==
    \A r \in Requests :
        (Uploaded(r) /\ resp[r].status # 200) => resp[r].status = 400

\* C3 (amended): an unsupported type and an empty extraction result yield HTTP
\* 400; a PDF or DOCX parser that throws yields HTTP 500, with a detail that
\* names the extractor and carries the parser's message.
C3_FailureStatuses ==
    \A r \in Requests :
        Uploaded(r) =>
            /\ File(r).mime \notin {PDF_MIME, DOCX_MIME} => resp[r].status = 400
            /\ ParserThrows(File(r)) =>
                  /\ resp[r].status = 500
                  /\ Len(resp[r].detail) = 2
                  /\ resp[r].detail[1] =
                        (IF File(r).mime = PDF_MIME THEN "PDF extraction error: "
                                                    ELSE "DOCX extraction error: ")
            /\ (~ParserThrows(File(r)) /\ ext[r].invoked # "none" /\ ext[r].text = <<>>)
                  => resp[r].status = 400
            /\ resp[r].status \in {200, 400, 500}

C3_Witness ==
    \E r \in Requests :
        /\ Uploaded(r)
        /\ File(r).mime = DOCX_MIME
        /\ File(r).content.fmt = "pdf"
        /\ resp[r].status = 500

\* C6: for a PDF of n pages that parses, extract_text_from_pdf reads pages
\* 1..min(n, 10) in order and returns their texts, one after the other (a page
\* without text adding nothing), without leading and trailing white space;
\* nothing of page 11 or later is in the result.
C6_FirstTenPages ==
    \A r \in Requests :
        (Uploaded(r) /\ PdfParses(File(r))) =>
            LET pages == File(r).content.pages
                n == Len(pages)
                m == IF n < 10 THEN n ELSE 10
            IN  /\ ext[r].invoked = "pdf"
                /\ ext[r].read = [k \in 1..m |-> k]
                /\ IsTrimOf(ext[r].text, PagesText(pages, m))
                /\ \A j \in 1..Len(ext[r].text) :
                       \E k \in 1..m :
                           /\ pages[k].kind = "text"
                           /\ \E i \in 1..Len(pages[k].text) : pages[k].text[i] = ext[r].text[j]

C6_Witness ==
    \E r \in Requests :
        /\ Uploaded(r)
        /\ PdfParses(File(r))
        /\ Len(File(r).content.pages) = 11
        /\ File(r).content.pages[11] = TextPage(<<"z">>)
        /\ File(r).content.pages[1] = TextPage(<<"\n", "b", " ">>)
        /\ Len(ext[r].read) = 10
        /\ Len(ext[r].text) = 28
        /\ resp[r].status = 200

\* C7: every 200 response of the upload route has text_length equal to the
\* number of characters of its extracted_text, a non-empty extracted_text, and
\* the uploaded file's name as filename.
C7_UploadResponseShape ==
    \A r \in Requests :
        (Uploaded(r) /\ resp[r].status = 200) =>
            /\ resp[r].fields.text_length = Len(resp[r].fields.extracted_text)
            /\ resp[r].fields.extracted_text # <<>>
            /\ resp[r].fields.extracted_text = ext[r].text
            /\ resp[r].fields.filename = File(r).filename

C7_Witness ==
    \E r \in Requests :
        /\ Uploaded(r)
        /\ resp[r].status = 200
        /\ File(r).mime = DOCX_MIME
        /\ resp[r].fields.text_length = 4
        /\ resp[r].fields.filename = "notes.bin"

\* ------------------------------------------------ claims on LLM routes
Llm(r) == req[r].route \in LlmRoutes
ConfigFailed(r) == Llm(r) /\ client[r] = "failed"

\* C4 (as claimed): when genai.Client() fails the request ends with HTTP 500 and
\* one message, the same on every LLM route, and no generation call is sent.
C4_OneMessageOnEveryRoute ==
    \A r1, r2 \in Requests :
        (ConfigFailed(r1) /\ ConfigFailed(r2)) =>
            /\ resp[r1].status = 500
            /\ calls[r1] = <<>>
            /\ resp[r1].detail = resp[r2].detail

\* C4 (amended): when genai.Client() fails the request ends with HTTP 500, no
\* generation call is sent, and the detail is fixed per route, whatever the
\* request body and the exception: "Gemini API Key is missing or invalid." on
\* /rewrite_clause/, /generate_risk_summary/ and /personalized_summary/, and
\* that sentence followed by " Check environment variables." on
\* /chat_with_document/.
C4_StableMessagePerRoute ==
    \A r \in Requests :
        ConfigFailed(r) =>
            /\ Done(r)
            /\ resp[r].status = 500
            /\ resp[r].fields = NoFields
            /\ calls[r] = <<>>
            /\ reply[r] = NoReply
            /\ resp[r].detail =
                  (IF req[r].route = "chat"
                   THEN <<"Gemini API Key is missing or invalid. Check environment variables.">>
                   ELSE <<"Gemini API Key is missing or invalid.">>)

C4_Witness ==
    \E r1, r2 \in Requests :
        /\ credentials = "invalid"
        /\ ConfigFailed(r1) /\ ConfigFailed(r2)
        /\ req[r1].route = "risk" /\ req[r2].route = "risk"
        /\ req[r1].body # req[r2].body
        /\ resp[r1] = resp[r2]
        /\ resp[r1].status = 500

\* C5: once the client handle is obtained the handler issues exactly one
\* generation call; when that call fails the request ends with HTTP 500 whose
\* detail carries the underlying message; a call is never issued twice, and a
\* request's outcome comes from the reply to its own call.
C5_OneCallNoRetry ==
    \A r \in Requests :
        /\ Len(calls[r]) <= 1
        /\ (Llm(r) /\ client[r] = "handle" /\ pc[r] \in {"called", "done"})
              => Len(calls[r]) = 1
        /\ (Llm(r) /\ Done(r) /\ client[r] = "handle") => reply[r].kind \in {"text", "error"}
        /\ (Llm(r) /\ Done(r) /\ reply[r].kind = "error") =>
              /\ resp[r].status = 500
              /\ resp[r].fields = NoFields
              /\ Len(resp[r].detail) = 1 + Len(reply[r].text)
              /\ SubSeq(resp[r].detail, 2, Len(resp[r].detail)) = reply[r].text
        /\ (Llm(r) /\ Done(r) /\ reply[r].kind = "text") => resp[r].status = 200
        /\ pc[r] = "client" => reply[r] = NoReply

C5_Witness ==
    \E r1, r2 \in Requests :
        /\ r1 # r2
        /\ req[r1] = req[r2]
        /\ req[r1].route = "rewrite"
        /\ Done(r1) /\ Done(r2)
        /\ reply[r1].kind = "text" /\ resp[r1].status = 200
        /\ reply[r2] = [kind |-> "error", text |-> <<"quota exceeded">>]
        /\ resp[r2].status = 500
        /\ Len(calls[r1]) = 1 /\ Len(calls[r2]) = 1

\* the field of each route's 200 response
FieldOf(route) ==
    CASE route = "chat" -> "answer"
      [] route = "rewrite" -> "simplified_text"
      [] route = "risk" -> "risk_report"
      [] route = "personalized" -> "summary"

\* C8: when the generation call succeeds, the response is a 200 whose only
\* field is the route's (answer, simplified_text, risk_report, summary) and
\* holds the upstream text unchanged.
C8_ResponseTextVerbatim ==
    \A r \in Requests :
        (Llm(r) /\ Done(r) /\ reply[r].kind = "text") =>
            /\ resp[r].status = 200
            /\ DOMAIN resp[r].fields = {FieldOf(req[r].route)}
            /\ resp[r].fields[FieldOf(req[r].route)] = reply[r].text

C8_Witness ==
    \E r \in Requests :
        /\ Llm(r) /\ Done(r)
        /\ req[r].route = "personalized"
        /\ reply[r] = [kind |-> "text", text |-> <<" ", "y", "\n">>]
        /\ resp[r].fields.summary = <<" ", "y", "\n">>

\* a request handled with no other request in the system: its response and the
\* prompts it sends, from its own input, the credentials and its own reply
AloneResp(q, cred, rep) ==
    IF q.route = "upload" THEN upload_document(q.body).resp
    ELSE IF ClientError(cred) # ""
         THEN HTTPException(500, ConfigErrorDetail(q.route, ClientError(cred)))
    ELSE IF rep.kind = "text" THEN Ok200(SuccessFields(q.route, rep.text))
    ELSE HTTPException(500, UpstreamErrorDetail(q.route, rep.text))

AloneCalls(q, cred) ==
    IF q.route = "upload" \/ ClientError(cred) # "" THEN <<>>
    ELSE <<BuildPrompt(q.route, q.body)>>

\* C9: under any interleaving, a finished request's response, and the prompt it
\* sent, are those of the same request handled alone: they depend on its own
\* input, the credentials and the reply to its own call, never on another
\* request.
C9_RequestsIndependent ==
    \A r \in Requests :
        /\ Done(r) => /\ resp[r] = AloneResp(req[r], credentials, reply[r])
                      /\ calls[r] = AloneCalls(req[r], credentials)
        /\ pc[r] = "called" => calls[r] = AloneCalls(req[r], credentials)
        /\ pc[r] \in {"idle", "received", "client"} => (calls[r] = <<>> /\ resp[r] = NoResp)

C9_Witness ==
    \E r1, r2 \in Requests :
        /\ r1 < r2
        /\ req[r1].route = "chat" /\ req[r2].route = "chat"
        /\ req[r1].body.document_text # req[r2].body.document_text
        /\ req[r1].body.question # req[r2].body.question
        /\ pc[r1] = "called"
        /\ Done(r2) /\ resp[r2].status = 200
        /\ calls[r1] # calls[r2]

\* C10: two requests of the same kind with the same input fields send the same
\* prompt, whatever was handled before them or beside them.
C10_PromptDeterministic ==
    \A r1, r2 \in Requests :
        (Llm(r1) /\ req[r1] = req[r2] /\ calls[r1] # <<>> /\ calls[r2] # <<>>)
            => calls[r1] = calls[r2]

C10_Witness ==
    \E r1, r2 \in Requests :
        /\ r1 # r2
        /\ req[r1] = req[r2]
        /\ req[r1].route = "chat"
        /\ req[r1].body.document_text = DocB
        /\ Done(r1) /\ pc[r2] = "called"
        /\ Len(calls[r1]) = 1
        /\ calls[r1] = calls[r2]
====
